---- MODULE Spec2Model ----
(***************************************************************************)
(* Multi-Agent AI Assistant backend: the /multi-agent/stream endpoint      *)
(* (src/backend.py, multi_agent_stream.event_generator) together with the  *)
(* domain agents of src/services/specialized_agents.py, the legacy         *)
(* /llm/stream endpoint with LLMService.stream_chat_completion, the        *)
(* request/response endpoints /agents, /session and /route, the checks     *)
(* made when the process starts, the chat client (src/app_v2.py) and the   *)
(* voice service (src/services/voice_service.py).                          *)
(*                                                                         *)
(* Text is a sequence of tokens; "+" on Python strings is \o, len() is Len *)
(* and s[:n] is Trunc(s, n).  An optional value (Python None or a value)   *)
(* is a sequence of length 0 or 1.                                         *)
(*                                                                         *)
(* services/supervisor_agent.py and services/tools_service.py are not part *)
(* of the sources at hand: the Router, the Memory Store and the Tool       *)
(* Providers are modelled from their contracts in spec.md (sections 4.1,   *)
(* 6 and 7): each call either returns or raises.                           *)
(***************************************************************************)
EXTENDS Naturals, Sequences, FiniteSets

VARIABLES
    mem0_enabled,       \* settings.mem0_enabled
    store,              \* the Memory Store: sequence of MemoryRecords, oldest first
    store_before,       \* the Memory Store as it was when the request arrived
    pc,                 \* position of event_generator
    payload,            \* the MultiModalRequest being served
    user_memories,      \* event_generator's user_memories: <<>> is None
    recommended_agent,  \* routing_decision["recommended_agent"]: <<>> before routing
    agent_pc,           \* position of the agent's process generator
    chunk,              \* fragment yielded by the agent and not yet relayed
    full_response,      \* event_generator's full_response
    events,             \* the events sent to the transport for this request
    calls,              \* log of the collaborator calls made for this request
    router_memories,    \* the user_memories argument of each route call
    produced,           \* the fragments the agent has yielded, in order
    classified_domain,  \* routing_decision["classified_domain"]: <<>> before routing
    completion,         \* the outputs the Completion Provider returned to the agent
    l_pc,               \* /llm/stream: position of llm_stream and its event_generator
    l_messages,         \* /llm/stream: payload.messages
    l_events,           \* /llm/stream: the events sent to the transport
    l_calls,            \* /llm/stream: log of the chat.completions.create calls
    l_yielded,          \* /llm/stream: the fragments stream_chat_completion yielded
    l_streamed,         \* /llm/stream: the fragments yielded from the provider's stream
    l_fallback,         \* /llm/stream: the content of the non-streaming answer, <<>> if none
    env,                \* the credentials found in the environment at process start
    process,            \* "serving" once the modules were imported, "refused" if that failed
    registry,           \* the AGENT_REGISTRY dict
    api_op,             \* the last request/response endpoint served: "none" if none
    api_response,       \* its HTTP response
    api_calls,          \* log of the collaborator calls it made
    c_user_id,          \* chat client: st.session_state.user_id, <<>> is None
    c_session_id,       \* chat client: st.session_state.session_id, <<>> is None
    c_history,          \* chat client: st.session_state.conversation_history
    c_memories,         \* chat client: st.session_state.user_memories
    c_mode,             \* chat client: st.session_state.interaction_mode
    c_last_agent,       \* chat client: st.session_state.last_agent, <<>> is None
    c_before,           \* chat client: the session state before the last button press
    c_last,             \* chat client: the last interaction and how it ended
    c_sent,             \* chat client: the payloads posted to /multi-agent/stream
    v_loaded,           \* voice service: whether voice_service was constructed
    groq_client,        \* voice service: self.groq_client is set
    openai_client,      \* voice service: self.openai_client is set
    v_last,             \* voice service: the last operation, its input and its result
    v_calls             \* voice service: log of the provider calls of that operation

vars == <<mem0_enabled, store, store_before, pc, payload, user_memories, recommended_agent,
          agent_pc, chunk, full_response, events, calls, router_memories,
          produced, classified_domain, completion,
          l_pc, l_messages, l_events, l_calls, l_yielded, l_streamed, l_fallback,
          env, process, registry, api_op, api_response, api_calls,
          c_user_id, c_session_id, c_history, c_memories, c_mode, c_last_agent,
          c_before, c_last, c_sent,
          v_loaded, groq_client, openai_client, v_last, v_calls>>

\* the state of the legacy endpoint
legacy_vars == <<l_pc, l_messages, l_events, l_calls, l_yielded, l_streamed, l_fallback>>

\* what is fixed when the process starts
boot_vars == <<env, process, registry>>

\* the state of the request/response endpoints (/agents, /session, /route)
api_vars == <<api_op, api_response, api_calls>>

\* the state of the chat client (src/app_v2.py)
client_vars == <<c_user_id, c_session_id, c_history, c_memories, c_mode, c_last_agent,
                 c_before, c_last, c_sent>>

\* the state of the voice service (src/services/voice_service.py)
voice_vars == <<v_loaded, groq_client, openai_client, v_last, v_calls>>

\* the two front ends, which the backend's handlers never touch
front_vars == <<client_vars, voice_vars>>

\* the state of the multi-agent endpoint and of its collaborators
stream_vars == <<mem0_enabled, store, store_before, pc, payload, user_memories,
                 recommended_agent, agent_pc, chunk, full_response, events, calls,
                 router_memories, produced, classified_domain, completion>>

(***************************************************************************)
(* Bounds of the model                                                     *)
(***************************************************************************)
\* a new request is accepted only while the store holds fewer records
MaxStore == 2
\* the provider's stream carries at most this many non-empty deltas
MaxDeltas == 2
\* the chat client takes a new input only while its history is shorter
MaxTurns == 3

Users == {"u1", "u2"}
Modes == {"text", "voice"}
\* an identifier the classifier may produce that is no domain
UnknownDomain == "weather"

(***************************************************************************)
(* Program constants                                                       *)
(***************************************************************************)
\* limit=5 of the orchestrator's retrieve_memories call
MemoryLimit == 5
\* payload.message[:100] / message[:100]
TruncLen == 100

\* settings.agent_domains
agent_domains == <<"research", "finance", "travel", "shopping", "jobs", "recipes">>

\* The six agent instances: domain, the status line yielded first, the Tool
\* Provider calls made in order, and the prefix of the memory note.
research_agent ==
    [domain |-> "research", status |-> <<"Searching for research information...">>,
     tools |-> <<"search_news", "query_documents">>, note |-> "Researched:"]
finance_agent ==
    [domain |-> "finance", status |-> <<"Analyzing financial information...">>,
     tools |-> <<"search_news">>, note |-> "Financial Query:"]
travel_agent ==
    [domain |-> "travel", status |-> <<"Searching for travel options...">>,
     tools |-> <<>>, note |-> "Travel Interest:"]
shopping_agent ==
    [domain |-> "shopping", status |-> <<"Finding product recommendations...">>,
     tools |-> <<"search_news">>, note |-> "Shopping Interest:"]
jobs_agent ==
    [domain |-> "jobs", status |-> <<"Searching for job opportunities...">>,
     tools |-> <<"search_jobs">>, note |-> "Job Search:"]
recipes_agent ==
    [domain |-> "recipes", status |-> <<"Finding recipes for you...">>,
     tools |-> <<"search_recipes">>, note |-> "Recipe Interest:"]

AGENT_REGISTRY ==
    [d \in {"research", "finance", "travel", "shopping", "jobs", "recipes"} |->
        CASE d = "research" -> research_agent
          [] d = "finance"  -> finance_agent
          [] d = "travel"   -> travel_agent
          [] d = "shopping" -> shopping_agent
          [] d = "jobs"     -> jobs_agent
          [] d = "recipes"  -> recipes_agent]

(***************************************************************************)
(* Helpers                                                                 *)
(***************************************************************************)
Range(s) == {s[i] : i \in 1..Len(s)}

Min(a, b) == IF a <= b THEN a ELSE b

\* s[:n]
Trunc(s, n) == SubSeq(s, 1, Min(Len(s), n))

\* the last n elements of s
LastN(s, n) == SubSeq(s, Len(s) - Min(Len(s), n) + 1, Len(s))

RECURSIVE Concat(_)
\* "".join(ss)
Concat(ss) == IF ss = <<>> THEN <<>> ELSE Head(ss) \o Concat(Tail(ss))

\* a message of n tokens
Filler(n) == [i \in 1..n |-> "w"]

\* the request messages tried: a short one and one longer than TruncLen
Messages == {<<"flight", "to", "Tokyo">>, Filler(TruncLen + 1)}

\* the response.content values the Completion Provider may return
Responses == {<<>>, <<"answer", "text">>}

\* str(e) of the exceptions the collaborators may raise
MemoryError == <<"memory store unavailable">>
ToolError == <<"tool provider unavailable">>
ClassificationError == <<"classification failed">>
ProviderErrors == {<<"provider", "timeout">>, <<"rate limit">>}

Payloads == [user_id : Users, message : Messages, mode : Modes]
NoPayload == [user_id |-> "", message |-> <<>>, mode |-> ""]

Call(op, by, ok) == [op |-> op, by |-> by, ok |-> ok]

\* chat client: the part of st.session_state a session consists of
SessionState(user_id, session_id, history, memories) ==
    [user_id |-> user_id, session_id |-> session_id,
     conversation_history |-> history, user_memories |-> memories]
NoSession == SessionState(<<>>, <<>>, <<>>, <<>>)

\* chat client: nothing was pressed or typed yet
NoInteraction == [op |-> "none", ok |-> TRUE]

\* voice service: no operation was called yet
NoOperation == [op |-> "none"]

\* no HTTP response yet
NoResponse == [status_code |-> 0]

AgentAt(at, i) == [at |-> at, i |-> i]
AgentIdle == AgentAt("idle", 0)

(***************************************************************************)
(* Collaborators, modelled from their contracts in spec.md                 *)
(***************************************************************************)
\* Memory Store retrieveRecent(owner, limit): the latest `limit` records of owner
retrieve_memories(st, user_id, limit) ==
    LET Owned(r) == r.owner = user_id
    IN  LastN(SelectSeq(st, Owned), limit)

\* Memory Store append(owner, message, metadata)
add_memory(st, user_id, message, metadata) ==
    Append(st, [owner |-> user_id, message |-> message, metadata |-> metadata])

\* the designated default domain of the Router
DefaultDomain == "research"

\* what the classifier may answer: a domain, or an identifier that is none
Classifications == Range(agent_domains) \cup {UnknownDomain}

\* variant: the classifier's identifier is propagated as it is
Remap_Identity(raw) == raw

\* Router: an identifier outside the known set is remapped to the default
Remap(raw) == IF raw \in Range(agent_domains) THEN raw ELSE DefaultDomain

(***************************************************************************)
(* event_generator: values it builds                                       *)
(***************************************************************************)
\* variant: a lookup that falls back to an agent, AGENT_REGISTRY.get(name, research_agent)
RegistryGet_WithDefault(name) ==
    IF name \in DOMAIN registry THEN <<registry[name]>> ELSE <<research_agent>>

\* AGENT_REGISTRY.get(name): <<>> is None
RegistryGet(name) ==
    IF name \in DOMAIN registry THEN <<registry[name]>> ELSE <<>>

\* variant: full_response = chunk
Accumulate_Overwrite(full, c) == c

\* full_response += chunk
Accumulate(full, c) == full \o c

\* json.dumps({"content": chunk, "agent": recommended_agent, "mode": payload.mode})
ContentEvent(c, agent, mode) == [content |-> c, agent |-> agent, mode |-> mode]

\* json.dumps({"error": str(e), "content": f"Error: {str(e)}"})
ErrorEvent(e) == [error |-> e, content |-> <<"Error:">> \o e]

\* the record of the orchestrator's add_memory call
OrchestratorNote(agent, message) == <<"Used", agent, "agent:">> \o Trunc(message, TruncLen)
OrchestratorMetadata(agent, mode, full) ==
    [agent |-> agent, mode |-> mode, response_length |-> Len(full)]

\* variant: the message is not truncated
AgentNote_Untruncated(agent, message) == <<agent.note>> \o message

\* the record of an agent's add_memory call
AgentNote(agent, message) == <<agent.note>> \o Trunc(message, TruncLen)
AgentMetadata(agent, message) == [domain |-> agent.domain, query |-> message]

\* variant: the failure is reported twice
ExceptHandler_Twice(e) ==
    /\ events' = events \o <<ErrorEvent(e), ErrorEvent(e)>>
    /\ pc' = "errored"

\* except Exception as e: one error event, and the generator returns
ExceptHandler(e) ==
    /\ events' = Append(events, ErrorEvent(e))
    /\ pc' = "errored"

\* agent, the instance that AGENT_REGISTRY.get returned for the request
Agent == RegistryGet(recommended_agent[1])[1]

(***************************************************************************)
(* Process start: importing backend.py imports config.settings, then       *)
(* services.llm_service, services.specialized_agents and                   *)
(* services.tools_service; an exception in any of them ends the process    *)
(* before the application exists.                                          *)
(***************************************************************************)
\* a credential in the environment: not set, set to the empty string, or set
Unset == <<>>
Credentials == {Unset, <<"">>, <<"key">>}

\* the required fields of Settings, declared "str" without a default
RequiredKeys == {"serpapi_key", "mem0_api_key", "groq_api"}

Environments == [RequiredKeys -> Credentials]

\* settings = Settings(): validation fails when a required field is not set
SettingsLoads(e) == \A k \in RequiredKeys : e[k] # Unset

\* variant: the key is handed to the client unchecked
LLMServiceInit_Unchecked(e) == TRUE

\* LLMService.__init__: raise ValueError("GROQ_API not configured") if not settings.groq_api
LLMServiceInit(e) == e["groq_api"] # <<"">>

\* the Tool Provider and Memory Store clients refuse an empty credential
ToolsServiceInit(e) == e["serpapi_key"] # <<"">> /\ e["mem0_api_key"] # <<"">>

\* the outcome of importing backend.py
Startup(e) ==
    IF SettingsLoads(e) /\ LLMServiceInit(e) /\ ToolsServiceInit(e)
    THEN "serving" ELSE "refused"

(***************************************************************************)
(* Initial state: the process has started, no request is being served      *)
(***************************************************************************)
Init ==
    /\ env \in Environments
    /\ process = Startup(env)
    /\ registry = AGENT_REGISTRY
    /\ api_op = "none"
    /\ api_response = NoResponse
    /\ api_calls = <<>>
    /\ l_streamed = <<>>
    /\ l_fallback = <<>>
    /\ c_user_id = <<>>
    /\ c_session_id = <<>>
    /\ c_history = <<>>
    /\ c_memories = <<>>
    /\ c_mode = "text"
    /\ c_last_agent = <<>>
    /\ c_before = NoSession
    /\ c_last = NoInteraction
    /\ c_sent = <<>>
    /\ v_loaded = FALSE
    /\ groq_client = FALSE
    /\ openai_client = FALSE
    /\ v_last = NoOperation
    /\ v_calls = <<>>
    /\ mem0_enabled \in BOOLEAN
    /\ store = <<>>
    /\ store_before = <<>>
    /\ pc = "idle"
    /\ payload = NoPayload
    /\ user_memories = <<>>
    /\ recommended_agent = <<>>
    /\ agent_pc = AgentIdle
    /\ chunk = <<>>
    /\ full_response = <<>>
    /\ events = <<>>
    /\ calls = <<>>
    /\ router_memories = <<>>
    /\ produced = <<>>
    /\ classified_domain = <<>>
    /\ completion = <<>>
    /\ l_pc = "idle"
    /\ l_messages = <<>>
    /\ l_events = <<>>
    /\ l_calls = <<>>
    /\ l_yielded = <<>>

(***************************************************************************)
(* POST /multi-agent/stream                                                *)
(***************************************************************************)
\* a request arrives and event_generator starts
StartRequest ==
    /\ process = "serving"
    /\ pc \in {"idle", "done", "errored", "cancelled"}
    /\ l_pc \in {"idle", "rejected", "done", "errored"}
    /\ Len(store) < MaxStore
    /\ \E p \in Payloads : payload' = p
    /\ pc' = "fetch"
    /\ user_memories' = <<>>
    /\ recommended_agent' = <<>>
    /\ agent_pc' = AgentIdle
    /\ chunk' = <<>>
    /\ full_response' = <<>>
    /\ events' = <<>>
    /\ calls' = <<>>
    /\ router_memories' = <<>>
    /\ produced' = <<>>
    /\ store_before' = store
    /\ classified_domain' = <<>>
    /\ completion' = <<>>
    /\ l_pc' = "idle"
    /\ l_messages' = <<>>
    /\ l_events' = <<>>
    /\ l_calls' = <<>>
    /\ l_yielded' = <<>>
    /\ l_streamed' = <<>>
    /\ l_fallback' = <<>>
    /\ api_op' = "none"
    /\ api_response' = NoResponse
    /\ api_calls' = <<>>
    /\ UNCHANGED <<mem0_enabled, store>>
    /\ UNCHANGED <<boot_vars, front_vars>>

\* Step 1: get user memories
FetchMemory ==
    /\ pc = "fetch"
    /\ IF mem0_enabled
       THEN \/ /\ user_memories' =
                    <<[memories |-> retrieve_memories(store, payload.user_id, MemoryLimit),
                       user_id |-> payload.user_id]>>
               /\ calls' = Append(calls, Call("retrieve_memories", "orchestrator", TRUE))
               /\ pc' = "route"
               /\ UNCHANGED events
            \/ /\ calls' = Append(calls, Call("retrieve_memories", "orchestrator", FALSE))
               /\ ExceptHandler(MemoryError)
               /\ UNCHANGED user_memories
       ELSE /\ pc' = "route"
            /\ UNCHANGED <<user_memories, calls, events>>
    /\ UNCHANGED legacy_vars
    /\ UNCHANGED <<boot_vars, api_vars, front_vars>>
    /\ UNCHANGED <<classified_domain, completion>>
    /\ UNCHANGED <<mem0_enabled, store, store_before, payload, recommended_agent, agent_pc, chunk,
                   full_response, router_memories, produced>>

\* variant: the Router is called without the memories that were fetched
Route_WithoutMemories ==
    /\ pc = "route"
    /\ router_memories' = Append(router_memories, <<>>)
    /\ \/ /\ \E raw \in Classifications :
                /\ classified_domain' = <<raw>>
                /\ recommended_agent' = <<Remap(raw)>>
          /\ calls' = Append(calls, Call("route", "orchestrator", TRUE))
          /\ pc' = "resolve"
          /\ UNCHANGED events
       \/ /\ calls' = Append(calls, Call("route", "orchestrator", FALSE))
          /\ ExceptHandler(ClassificationError)
          /\ UNCHANGED <<recommended_agent, classified_domain>>
    /\ UNCHANGED legacy_vars
    /\ UNCHANGED <<boot_vars, api_vars, front_vars>>
    /\ UNCHANGED <<completion>>
    /\ UNCHANGED <<mem0_enabled, store, store_before, payload, user_memories, agent_pc,
                   chunk, full_response, produced>>

\* variant: a failed classification is absorbed and the default domain serves
Route_DefaultsOnFailure ==
    /\ pc = "route"
    /\ router_memories' = Append(router_memories, user_memories)
    /\ \/ /\ \E raw \in Classifications :
                /\ classified_domain' = <<raw>>
                /\ recommended_agent' = <<Remap(raw)>>
          /\ calls' = Append(calls, Call("route", "orchestrator", TRUE))
       \/ /\ calls' = Append(calls, Call("route", "orchestrator", FALSE))
          /\ recommended_agent' = <<DefaultDomain>>
          /\ UNCHANGED classified_domain
    /\ pc' = "resolve"
    /\ UNCHANGED legacy_vars
    /\ UNCHANGED <<boot_vars, api_vars, front_vars>>
    /\ UNCHANGED <<completion>>
    /\ UNCHANGED <<mem0_enabled, store, store_before, payload, user_memories, agent_pc,
                   chunk, full_response, events, produced>>

\* variant: a failed classification is retried once
Route_RetriesOnce ==
    /\ pc = "route"
    /\ router_memories' = Append(router_memories, user_memories)
    /\ \/ /\ \E raw \in Classifications :
                /\ classified_domain' = <<raw>>
                /\ recommended_agent' = <<Remap(raw)>>
          /\ calls' = Append(calls, Call("route", "orchestrator", TRUE))
          /\ pc' = "resolve"
          /\ UNCHANGED events
       \/ /\ calls' = Append(calls, Call("route", "orchestrator", FALSE))
          /\ IF router_memories = <<>>
             THEN UNCHANGED <<pc, events>>
             ELSE ExceptHandler(ClassificationError)
          /\ UNCHANGED <<recommended_agent, classified_domain>>
    /\ UNCHANGED legacy_vars
    /\ UNCHANGED <<boot_vars, api_vars, front_vars>>
    /\ UNCHANGED <<completion>>
    /\ UNCHANGED <<mem0_enabled, store, store_before, payload, user_memories, agent_pc,
                   chunk, full_response, produced>>

\* Step 2: route via supervisor; the Router keeps its closed-set guarantee
Route ==
    /\ pc = "route"
    /\ router_memories' = Append(router_memories, user_memories)
    /\ \/ /\ \E raw \in Classifications :
                /\ classified_domain' = <<raw>>
                /\ recommended_agent' = <<Remap(raw)>>
          /\ calls' = Append(calls, Call("route", "orchestrator", TRUE))
          /\ pc' = "resolve"
          /\ UNCHANGED events
       \/ /\ calls' = Append(calls, Call("route", "orchestrator", FALSE))
          /\ ExceptHandler(ClassificationError)
          /\ UNCHANGED <<recommended_agent, classified_domain>>
    /\ UNCHANGED legacy_vars
    /\ UNCHANGED <<boot_vars, api_vars, front_vars>>
    /\ UNCHANGED <<completion>>
    /\ UNCHANGED <<mem0_enabled, store, store_before, payload, user_memories, agent_pc, chunk,
                   full_response, produced>>

\* Step 2 with a regressed Router that propagates the classifier's identifier
RouteRegressed ==
    /\ pc = "route"
    /\ router_memories' = Append(router_memories, user_memories)
    /\ \E raw \in Classifications :
          /\ classified_domain' = <<raw>>
          /\ recommended_agent' = <<raw>>
    /\ calls' = Append(calls, Call("route", "orchestrator", TRUE))
    /\ pc' = "resolve"
    /\ UNCHANGED legacy_vars
    /\ UNCHANGED <<boot_vars, api_vars, front_vars>>
    /\ UNCHANGED <<completion>>
    /\ UNCHANGED <<mem0_enabled, store, store_before, payload, user_memories, agent_pc, chunk,
                   full_response, events, produced>>

\* variant: a name the registry does not know is registered on the fly
ResolveAgent_Registers ==
    /\ pc = "resolve"
    /\ registry' =
          [d \in DOMAIN registry \cup {recommended_agent[1]} |->
              IF d \in DOMAIN registry THEN registry[d] ELSE research_agent]
    /\ full_response' = <<>>
    /\ agent_pc' = AgentAt("start", 0)
    /\ pc' = "stream"
    /\ UNCHANGED legacy_vars
    /\ UNCHANGED <<env, process, api_vars, front_vars>>
    /\ UNCHANGED <<classified_domain, completion>>
    /\ UNCHANGED <<mem0_enabled, store, store_before, payload, user_memories,
                   recommended_agent, chunk, events, calls, router_memories, produced>>

\* Step 3: get the specialized agent, then call agent.process (a generator:
\* nothing of its body runs before the first fragment is requested)
ResolveAgent ==
    /\ pc = "resolve"
    /\ IF RegistryGet(recommended_agent[1]) = <<>>
       THEN /\ ExceptHandler(<<"Unknown agent:", recommended_agent[1]>>)
            /\ UNCHANGED <<agent_pc, full_response>>
       ELSE /\ full_response' = <<>>
            /\ agent_pc' = AgentAt("start", 0)
            /\ pc' = "stream"
            /\ UNCHANGED events
    /\ UNCHANGED legacy_vars
    /\ UNCHANGED <<boot_vars, api_vars, front_vars>>
    /\ UNCHANGED <<classified_domain, completion>>
    /\ UNCHANGED <<mem0_enabled, store, store_before, payload, user_memories, recommended_agent,
                   chunk, calls, router_memories, produced>>

(***************************************************************************)
(* agent.process, drained by event_generator's "async for"                 *)
(***************************************************************************)
\* where process continues after _get_user_context or a Tool Provider call
AfterTool(agent, i) ==
    IF i < Len(agent.tools) THEN AgentAt("tools", i + 1) ELSE AgentAt("llm", 0)

\* the first fragment is requested: process yields its status line
AgentStatus ==
    /\ pc = "stream"
    /\ agent_pc.at = "start"
    /\ chunk = <<>>
    /\ chunk' = <<Agent.status>>
    /\ produced' = Append(produced, Agent.status)
    /\ agent_pc' = AgentAt("context", 0)
    /\ UNCHANGED legacy_vars
    /\ UNCHANGED <<boot_vars, api_vars, front_vars>>
    /\ UNCHANGED <<classified_domain, completion>>
    /\ UNCHANGED <<mem0_enabled, store, store_before, pc, payload, user_memories, recommended_agent,
                   full_response, events, calls, router_memories>>

\* variant: an empty fragment is skipped ("if not chunk: continue")
Relay_SkipsEmpty ==
    /\ pc = "stream"
    /\ chunk # <<>>
    /\ full_response' = Accumulate(full_response, chunk[1])
    /\ events' = IF chunk[1] = <<>>
                 THEN events
                 ELSE Append(events,
                             ContentEvent(chunk[1], recommended_agent[1], payload.mode))
    /\ chunk' = <<>>
    /\ UNCHANGED legacy_vars
    /\ UNCHANGED <<boot_vars, api_vars, front_vars>>
    /\ UNCHANGED <<classified_domain, completion>>
    /\ UNCHANGED <<mem0_enabled, store, store_before, pc, payload, user_memories,
                   recommended_agent, agent_pc, calls, router_memories, produced>>

\* Step 4, the loop body: accumulate the fragment and send it to the transport
Relay ==
    /\ pc = "stream"
    /\ chunk # <<>>
    /\ full_response' = Accumulate(full_response, chunk[1])
    /\ events' = Append(events, ContentEvent(chunk[1], recommended_agent[1], payload.mode))
    /\ chunk' = <<>>
    /\ UNCHANGED legacy_vars
    /\ UNCHANGED <<boot_vars, api_vars, front_vars>>
    /\ UNCHANGED <<classified_domain, completion>>
    /\ UNCHANGED <<mem0_enabled, store, store_before, pc, payload, user_memories, recommended_agent,
                   agent_pc, calls, router_memories, produced>>

\* variant: the agent runs ahead of the consumer instead of waiting to be asked
AgentContext_RunsAhead ==
    /\ pc = "stream"
    /\ agent_pc.at = "context"
    /\ \/ /\ calls' = Append(calls, Call("retrieve_memories", "agent", TRUE))
          /\ agent_pc' = AfterTool(Agent, 0)
          /\ UNCHANGED <<pc, events>>
       \/ /\ calls' = Append(calls, Call("retrieve_memories", "agent", FALSE))
          /\ agent_pc' = AgentAt("aborted", 0)
          /\ ExceptHandler(MemoryError)
    /\ UNCHANGED legacy_vars
    /\ UNCHANGED <<boot_vars, api_vars, front_vars>>
    /\ UNCHANGED <<classified_domain, completion>>
    /\ UNCHANGED <<mem0_enabled, store, store_before, payload, user_memories,
                   recommended_agent, chunk, full_response, router_memories, produced>>

\* the next fragment is requested: context = await self._get_user_context(user_id)
\* (the result is not used by process)
AgentContext ==
    /\ pc = "stream"
    /\ agent_pc.at = "context"
    /\ chunk = <<>>
    /\ \/ /\ calls' = Append(calls, Call("retrieve_memories", "agent", TRUE))
          /\ agent_pc' = AfterTool(Agent, 0)
          /\ UNCHANGED <<pc, events>>
       \/ /\ calls' = Append(calls, Call("retrieve_memories", "agent", FALSE))
          /\ agent_pc' = AgentAt("aborted", 0)
          /\ ExceptHandler(MemoryError)
    /\ UNCHANGED legacy_vars
    /\ UNCHANGED <<boot_vars, api_vars, front_vars>>
    /\ UNCHANGED <<classified_domain, completion>>
    /\ UNCHANGED <<mem0_enabled, store, store_before, payload, user_memories, recommended_agent,
                   chunk, full_response, router_memories, produced>>

\* the agent's Tool Provider calls, in order
AgentTool ==
    /\ pc = "stream"
    /\ agent_pc.at = "tools"
    /\ \/ /\ calls' = Append(calls, Call(Agent.tools[agent_pc.i], "agent", TRUE))
          /\ agent_pc' = AfterTool(Agent, agent_pc.i)
          /\ UNCHANGED <<pc, events>>
       \/ /\ calls' = Append(calls, Call(Agent.tools[agent_pc.i], "agent", FALSE))
          /\ agent_pc' = AgentAt("aborted", 0)
          /\ ExceptHandler(ToolError)
    /\ UNCHANGED legacy_vars
    /\ UNCHANGED <<boot_vars, api_vars, front_vars>>
    /\ UNCHANGED <<classified_domain, completion>>
    /\ UNCHANGED <<mem0_enabled, store, store_before, payload, user_memories, recommended_agent,
                   chunk, full_response, router_memories, produced>>

\* variant: the agent saves its note before it calls the Completion Provider
AgentLLM_SavesFirst ==
    /\ pc = "stream"
    /\ agent_pc.at = "llm"
    /\ store' = add_memory(store, payload.user_id, AgentNote(Agent, payload.message),
                           AgentMetadata(Agent, payload.message))
    /\ \/ /\ \E r \in Responses :
                /\ chunk' = <<r>>
                /\ produced' = Append(produced, r)
                /\ completion' = Append(completion, r)
          /\ calls' = Append(calls, Call("ainvoke", "agent", TRUE))
          /\ agent_pc' = AgentAt("save", 0)
          /\ UNCHANGED <<pc, events>>
       \/ /\ calls' = Append(calls, Call("ainvoke", "agent", FALSE))
          /\ agent_pc' = AgentAt("aborted", 0)
          /\ \E e \in ProviderErrors : ExceptHandler(e)
          /\ UNCHANGED <<chunk, produced, completion>>
    /\ UNCHANGED legacy_vars
    /\ UNCHANGED <<boot_vars, api_vars, front_vars>>
    /\ UNCHANGED <<classified_domain>>
    /\ UNCHANGED <<mem0_enabled, store_before, payload, user_memories, recommended_agent,
                   full_response, router_memories>>

\* response = await self.llm.ainvoke(...); yield response.content
AgentLLM ==
    /\ pc = "stream"
    /\ agent_pc.at = "llm"
    /\ \/ /\ \E r \in Responses :
                /\ chunk' = <<r>>
                /\ produced' = Append(produced, r)
                /\ completion' = Append(completion, r)
          /\ calls' = Append(calls, Call("ainvoke", "agent", TRUE))
          /\ agent_pc' = AgentAt("save", 0)
          /\ UNCHANGED <<pc, events>>
       \/ /\ calls' = Append(calls, Call("ainvoke", "agent", FALSE))
          /\ agent_pc' = AgentAt("aborted", 0)
          /\ \E e \in ProviderErrors : ExceptHandler(e)
          /\ UNCHANGED <<chunk, produced, completion>>
    /\ UNCHANGED legacy_vars
    /\ UNCHANGED <<boot_vars, api_vars, front_vars>>
    /\ UNCHANGED <<classified_domain>>
    /\ UNCHANGED <<mem0_enabled, store, store_before, payload, user_memories, recommended_agent,
                   full_response, router_memories>>

\* the next fragment is requested: the agent saves its note and process returns,
\* which ends the "async for"
AgentSave ==
    /\ pc = "stream"
    /\ agent_pc.at = "save"
    /\ chunk = <<>>
    /\ \/ /\ store' = add_memory(store, payload.user_id,
                                 AgentNote(Agent, payload.message),
                                 AgentMetadata(Agent, payload.message))
          /\ calls' = Append(calls, Call("add_memory", "agent", TRUE))
          /\ agent_pc' = AgentAt("end", 0)
          /\ pc' = "writeback"
          /\ UNCHANGED events
       \/ /\ calls' = Append(calls, Call("add_memory", "agent", FALSE))
          /\ agent_pc' = AgentAt("aborted", 0)
          /\ ExceptHandler(MemoryError)
          /\ UNCHANGED store
    /\ UNCHANGED legacy_vars
    /\ UNCHANGED <<boot_vars, api_vars, front_vars>>
    /\ UNCHANGED <<classified_domain, completion>>
    /\ UNCHANGED <<mem0_enabled, store_before, payload, user_memories, recommended_agent, chunk,
                   full_response, router_memories, produced>>

\* Step 5: save to memories
WriteBack ==
    /\ pc = "writeback"
    /\ IF mem0_enabled
       THEN \/ /\ store' = add_memory(store, payload.user_id,
                                      OrchestratorNote(recommended_agent[1], payload.message),
                                      OrchestratorMetadata(recommended_agent[1], payload.mode,
                                                           full_response))
               /\ calls' = Append(calls, Call("add_memory", "orchestrator", TRUE))
               /\ pc' = "done"
               /\ UNCHANGED events
            \/ /\ calls' = Append(calls, Call("add_memory", "orchestrator", FALSE))
               /\ ExceptHandler(MemoryError)
               /\ UNCHANGED store
       ELSE /\ pc' = "done"
            /\ UNCHANGED <<store, calls, events>>
    /\ UNCHANGED legacy_vars
    /\ UNCHANGED <<boot_vars, api_vars, front_vars>>
    /\ UNCHANGED <<classified_domain, completion>>
    /\ UNCHANGED <<mem0_enabled, store_before, payload, user_memories, recommended_agent, agent_pc,
                   chunk, full_response, router_memories, produced>>

\* The client disconnects or the request times out: the task is cancelled at the
\* await or yield where event_generator is suspended.  CancelledError and
\* GeneratorExit are no Exception, so the except clause does not run.  An
\* add_memory call that is in flight may or may not have reached the store.
CancelRequest ==
    /\ \/ /\ pc \in {"fetch", "route"}
          /\ UNCHANGED store
       \/ /\ pc = "stream"
          /\ chunk = <<>>
          /\ UNCHANGED store
       \/ /\ pc = "stream"
          /\ chunk = <<>>
          /\ agent_pc.at = "save"
          /\ store' = add_memory(store, payload.user_id,
                                 AgentNote(Agent, payload.message),
                                 AgentMetadata(Agent, payload.message))
       \/ /\ pc = "writeback"
          /\ mem0_enabled
          /\ \/ UNCHANGED store
             \/ store' = add_memory(store, payload.user_id,
                                    OrchestratorNote(recommended_agent[1], payload.message),
                                    OrchestratorMetadata(recommended_agent[1], payload.mode,
                                                         full_response))
    /\ pc' = "cancelled"
    /\ agent_pc' = IF agent_pc.at \in {"idle", "end"} THEN agent_pc ELSE AgentAt("cancelled", 0)
    /\ UNCHANGED legacy_vars
    /\ UNCHANGED <<boot_vars, api_vars, front_vars>>
    /\ UNCHANGED <<classified_domain, completion>>
    /\ UNCHANGED <<mem0_enabled, store_before, payload, user_memories, recommended_agent,
                   chunk, full_response, events, calls, router_memories, produced>>

(***************************************************************************)
(* POST /llm/stream (legacy) and LLMService.stream_chat_completion         *)
(***************************************************************************)
Msg(role, content) == [role |-> role, content |-> content]

\* the message lists tried
LegacyMessageLists ==
    { <<>>,
      <<Msg("user", <<"hi">>)>>,
      <<Msg("assistant", <<"hello">>)>>,
      <<Msg("user", <<"hi">>), Msg("assistant", <<"hello">>)>>,
      <<Msg("user", <<"hi">>), Msg("user", <<>>)>> }

\* the delta.content values of the provider's stream chunks: <<>> is no content
Deltas == {<<>>, <<"tok">>}

\* variant: the scan runs from the front and stops at the first user message
LastUserMessage_First(msgs) ==
    LET idx == {i \in 1..Len(msgs) : msgs[i].role = "user"}
    IN  IF idx = {} THEN <<>>
        ELSE <<msgs[CHOOSE i \in idx : \A j \in idx : i <= j].content>>

\* for m in reversed(messages): if m.role == "user": user_message = m.content; break
LastUserMessage(msgs) ==
    LET idx == {i \in 1..Len(msgs) : msgs[i].role = "user"}
    IN  IF idx = {} THEN <<>>
        ELSE <<msgs[CHOOSE i \in idx : \A j \in idx : j <= i].content>>

\* not user_message: None or the empty string
NoUserMessage(msgs) == LastUserMessage(msgs) = <<>> \/ LastUserMessage(msgs)[1] = <<>>

\* variant: the event is built as on the multi-agent stream
LegacyContentEvent_WithAgent(c) == [content |-> c, agent |-> "llm"]

\* json.dumps({"content": chunk})
LegacyContentEvent(c) == [content |-> c]

\* json.dumps({"content": "Error: " + str(e)})
LegacyErrorEvent(e) == [content |-> <<"Error:">> \o e]

LegacyCall(op, ok) == [op |-> op, ok |-> ok]

\* a request arrives: HTTP 400 without a usable user message, else the stream opens
LegacyStart ==
    /\ process = "serving"
    /\ pc \in {"idle", "done", "errored", "cancelled"}
    /\ l_pc \in {"idle", "rejected", "done", "errored"}
    /\ Len(store) < MaxStore
    /\ \E msgs \in LegacyMessageLists :
          /\ l_messages' = msgs
          /\ l_pc' = IF msgs = <<>> \/ NoUserMessage(msgs) THEN "rejected" ELSE "create"
    /\ l_events' = <<>>
    /\ l_calls' = <<>>
    /\ l_yielded' = <<>>
    /\ l_streamed' = <<>>
    /\ l_fallback' = <<>>
    /\ api_op' = "none"
    /\ api_response' = NoResponse
    /\ api_calls' = <<>>
    /\ pc' = "idle"
    /\ payload' = NoPayload
    /\ user_memories' = <<>>
    /\ recommended_agent' = <<>>
    /\ agent_pc' = AgentIdle
    /\ chunk' = <<>>
    /\ full_response' = <<>>
    /\ events' = <<>>
    /\ calls' = <<>>
    /\ router_memories' = <<>>
    /\ produced' = <<>>
    /\ classified_domain' = <<>>
    /\ completion' = <<>>
    /\ store_before' = store
    /\ UNCHANGED <<mem0_enabled, store>>
    /\ UNCHANGED <<boot_vars, front_vars>>

\* stream = await self.client.chat.completions.create(stream=True)
LegacyCreate ==
    /\ l_pc = "create"
    /\ \/ /\ l_calls' = Append(l_calls, LegacyCall("create_stream", TRUE))
          /\ l_pc' = "stream"
       \/ /\ l_calls' = Append(l_calls, LegacyCall("create_stream", FALSE))
          /\ l_pc' = "fallback"
    /\ UNCHANGED <<l_messages, l_events, l_yielded, l_streamed, l_fallback>>
    /\ UNCHANGED stream_vars
    /\ UNCHANGED <<boot_vars, api_vars, front_vars>>

\* async for chunk in stream: a delta with content is yielded, and llm_stream
\* relays it as a content event unless it is empty
LegacyDelta ==
    /\ l_pc = "stream"
    /\ Len(l_yielded) < MaxDeltas
    /\ \E d \in Deltas :
          IF d # <<>>
          THEN /\ l_yielded' = Append(l_yielded, d)
               /\ l_streamed' = Append(l_streamed, d)
               /\ l_events' = Append(l_events, LegacyContentEvent(d))
          ELSE UNCHANGED <<l_yielded, l_streamed, l_events>>
    /\ UNCHANGED <<l_pc, l_messages, l_calls, l_fallback>>
    /\ UNCHANGED stream_vars
    /\ UNCHANGED <<boot_vars, api_vars, front_vars>>

\* the provider's stream ends: both generators return
LegacyStreamEnd ==
    /\ l_pc = "stream"
    /\ l_pc' = "done"
    /\ UNCHANGED <<l_messages, l_events, l_calls, l_yielded, l_streamed, l_fallback>>
    /\ UNCHANGED stream_vars
    /\ UNCHANGED <<boot_vars, api_vars, front_vars>>

\* the provider's stream raises while it is iterated
LegacyStreamFail ==
    /\ l_pc = "stream"
    /\ l_calls' = Append(l_calls, LegacyCall("iterate", FALSE))
    /\ l_pc' = "fallback"
    /\ UNCHANGED <<l_messages, l_events, l_yielded, l_streamed, l_fallback>>
    /\ UNCHANGED stream_vars
    /\ UNCHANGED <<boot_vars, api_vars, front_vars>>

\* variant: a failed non-streaming call is tried once more
LegacyFallback_Retries ==
    /\ l_pc = "fallback"
    /\ \/ /\ l_calls' = Append(l_calls, LegacyCall("create", TRUE))
          /\ \E r \in Responses :
                /\ l_fallback' = <<r>>
                /\ IF r # <<>>
                   THEN /\ l_yielded' = Append(l_yielded, r)
                        /\ l_events' = Append(l_events, LegacyContentEvent(r))
                   ELSE UNCHANGED <<l_yielded, l_events>>
          /\ l_pc' = "done"
       \/ /\ l_calls' = Append(l_calls, LegacyCall("create", FALSE))
          /\ IF l_calls[Len(l_calls)].op = "create"
             THEN /\ \E e \in ProviderErrors :
                        l_events' = Append(l_events, LegacyErrorEvent(e))
                  /\ l_pc' = "errored"
             ELSE UNCHANGED <<l_events, l_pc>>
          /\ UNCHANGED <<l_yielded, l_fallback>>
    /\ UNCHANGED <<l_messages, l_streamed>>
    /\ UNCHANGED stream_vars
    /\ UNCHANGED <<boot_vars, api_vars, front_vars>>

\* except Exception: the non-streaming call; its failure propagates to llm_stream,
\* whose except clause emits the error event
LegacyFallback ==
    /\ l_pc = "fallback"
    /\ \/ /\ l_calls' = Append(l_calls, LegacyCall("create", TRUE))
          /\ \E r \in Responses :
                /\ l_fallback' = <<r>>
                /\ IF r # <<>>
                   THEN /\ l_yielded' = Append(l_yielded, r)
                        /\ l_events' = Append(l_events, LegacyContentEvent(r))
                   ELSE UNCHANGED <<l_yielded, l_events>>
          /\ l_pc' = "done"
       \/ /\ l_calls' = Append(l_calls, LegacyCall("create", FALSE))
          /\ \E e \in ProviderErrors : l_events' = Append(l_events, LegacyErrorEvent(e))
          /\ l_pc' = "errored"
          /\ UNCHANGED <<l_yielded, l_fallback>>
    /\ UNCHANGED <<l_messages, l_streamed>>
    /\ UNCHANGED stream_vars
    /\ UNCHANGED <<boot_vars, api_vars, front_vars>>

Legacy ==
    \/ LegacyStart
    \/ LegacyCreate
    \/ LegacyDelta
    \/ LegacyStreamEnd
    \/ LegacyStreamFail
    \/ LegacyFallback

(***************************************************************************)
(* The request/response endpoints: GET /agents, POST /session, POST /route *)
(***************************************************************************)
\* variant: the listing leaves out the first entry
Keys_SkipsFirst(reg) ==
    LET Registered(d) == d \in DOMAIN reg
    IN  Tail(SelectSeq(agent_domains, Registered))

\* list(AGENT_REGISTRY.keys()): the keys in insertion order, which for the dict
\* literal is the order of settings.agent_domains
Keys(reg) ==
    LET Registered(d) == d \in DOMAIN reg
    IN  SelectSeq(agent_domains, Registered)

\* settings.enable_text_chat, enable_video_avatar, enable_voice_agent
interaction_modes == [text_chat |-> TRUE, video_avatar |-> FALSE, voice_agent |-> TRUE]

\* f"session-{body.user_id}"
SessionId(user_id) == <<"session-", user_id>>

\* the SessionCreateRequest bodies tried
SessionBodies == [user_id : Users, first_name : {"Demo"}]

\* str(time.time())
Clock == {"t0"}

\* the record of create_session's add_memory call
SessionNote(body) == <<"User", body.first_name, "initialized.">>
SessionMetadata(body, now) == [session_id |-> SessionId(body.user_id), created_at |-> now]

\* raise HTTPException(status_code=500, detail=str(e))
Http500(e) == [status_code |-> 500, detail |-> e]

\* The response of a stream is complete: the transport closes, the generator is
\* finalized and the state of the request is released.
Release ==
    /\ pc \in {"done", "errored", "cancelled"}
    /\ pc' = "idle"
    /\ payload' = NoPayload
    /\ user_memories' = <<>>
    /\ recommended_agent' = <<>>
    /\ agent_pc' = AgentIdle
    /\ chunk' = <<>>
    /\ full_response' = <<>>
    /\ events' = <<>>
    /\ calls' = <<>>
    /\ router_memories' = <<>>
    /\ produced' = <<>>
    /\ classified_domain' = <<>>
    /\ completion' = <<>>
    /\ store_before' = store
    /\ UNCHANGED <<mem0_enabled, store>>
    /\ UNCHANGED legacy_vars
    /\ UNCHANGED <<boot_vars, api_vars, front_vars>>

\* a request to one of these endpoints arrives while no stream is open
ApiStart(op) ==
    /\ process = "serving"
    /\ pc = "idle"
    /\ l_pc = "idle"
    /\ Len(store) < MaxStore
    /\ api_op' = op
    /\ store_before' = store
    /\ UNCHANGED <<pc, payload, user_memories, recommended_agent, agent_pc, chunk,
                   full_response, events, calls, produced, classified_domain, completion>>
    /\ UNCHANGED mem0_enabled
    /\ UNCHANGED legacy_vars
    /\ UNCHANGED <<boot_vars, front_vars>>

\* GET /agents
ListAgents ==
    /\ ApiStart("agents")
    /\ api_response' = [status_code |-> 200,
                        agents |-> Keys(registry),
                        domains |-> agent_domains,
                        interaction_modes |-> interaction_modes]
    /\ api_calls' = <<>>
    /\ router_memories' = <<>>
    /\ UNCHANGED store

\* variant: initializing a user starts that user's memory afresh
CreateSession_StartsAfresh ==
    /\ ApiStart("session")
    /\ router_memories' = <<>>
    /\ \E body \in SessionBodies, now \in Clock :
          LET Others(r) == r.owner # body.user_id
          IN  /\ store' = add_memory(SelectSeq(store, Others), body.user_id,
                                     SessionNote(body), SessionMetadata(body, now))
              /\ api_calls' = <<Call("add_memory", "session", TRUE)>>
              /\ api_response' = [status_code |-> 200,
                                  user_id |-> body.user_id,
                                  session_id |-> SessionId(body.user_id),
                                  memory_enabled |-> mem0_enabled]

\* POST /session
CreateSession ==
    /\ ApiStart("session")
    /\ router_memories' = <<>>
    /\ \E body \in SessionBodies, now \in Clock :
          LET ok == [status_code |-> 200,
                     user_id |-> body.user_id,
                     session_id |-> SessionId(body.user_id),
                     memory_enabled |-> mem0_enabled]
          IN  IF mem0_enabled
              THEN \/ /\ store' = add_memory(store, body.user_id, SessionNote(body),
                                             SessionMetadata(body, now))
                      /\ api_calls' = <<Call("add_memory", "session", TRUE)>>
                      /\ api_response' = ok
                   \/ /\ api_calls' = <<Call("add_memory", "session", FALSE)>>
                      /\ api_response' = Http500(MemoryError)
                      /\ UNCHANGED store
              ELSE /\ api_calls' = <<>>
                   /\ api_response' = ok
                   /\ UNCHANGED store

\* the MultiModalRequest bodies tried on /route
RouteRequests ==
    {[user_id |-> u, session_id |-> SessionId(u), message |-> <<"flight", "to", "Tokyo">>,
      mode |-> "text"] : u \in Users}

\* the user_memories that route_message hands to the Router: <<>> is None
RouteMemories(user_id) ==
    LET memories == retrieve_memories(store, user_id, MemoryLimit)
    IN  IF mem0_enabled THEN <<[memories |-> memories, count |-> Len(memories)]>> ELSE <<>>

\* the routing decision returned to the caller (its "context" entry is left out)
Routed(raw, session_id) ==
    [status_code |-> 200, status |-> "routed", recommended_agent |-> Remap(raw),
     classified_domain |-> raw, session_id |-> session_id]

\* variant: the decision is also recorded in the Memory Store
RouteMessage_RecordsDecision ==
    /\ ApiStart("route")
    /\ \E p \in RouteRequests, raw \in Classifications :
          /\ router_memories' = <<RouteMemories(p.user_id)>>
          /\ api_calls' = <<Call("route", "route", TRUE), Call("add_memory", "route", TRUE)>>
          /\ api_response' = Routed(raw, p.session_id)
          /\ store' = add_memory(store, p.user_id,
                                 OrchestratorNote(Remap(raw), p.message),
                                 OrchestratorMetadata(Remap(raw), p.mode, <<>>))

\* POST /route
RouteMessage ==
    /\ ApiStart("route")
    /\ \E p \in RouteRequests :
          LET fetch == IF mem0_enabled
                       THEN <<Call("retrieve_memories", "route", TRUE)>> ELSE <<>>
          IN  \/ /\ mem0_enabled
                 /\ api_calls' = <<Call("retrieve_memories", "route", FALSE)>>
                 /\ api_response' = Http500(MemoryError)
                 /\ router_memories' = <<>>
              \/ /\ router_memories' = <<RouteMemories(p.user_id)>>
                 /\ \/ \E raw \in Classifications :
                          /\ api_calls' = Append(fetch, Call("route", "route", TRUE))
                          /\ api_response' = Routed(raw, p.session_id)
                    \/ /\ api_calls' = Append(fetch, Call("route", "route", FALSE))
                       /\ api_response' = Http500(ClassificationError)
    /\ UNCHANGED store

Api ==
    \/ Release
    \/ ListAgents
    \/ CreateSession
    \/ RouteMessage

(***************************************************************************)
(* The chat client (src/app_v2.py): one Streamlit session.  Each action is *)
(* one run of the script, triggered by a button or by the chat input.      *)
(***************************************************************************)
\* everything outside the chat client except the Memory Store
client_frame ==
    <<mem0_enabled, store_before, pc, payload, user_memories, recommended_agent, agent_pc,
      chunk, full_response, events, calls, router_memories, produced, classified_domain,
      completion, legacy_vars, boot_vars, api_vars, voice_vars>>

\* the values typed into "Your Name"; a blank is a token of its own
UserNames == {<<"Demo", " ", "User">>, <<"Ada">>}

\* str.lower() on one token
LowerToken(w) ==
    CASE w = "Demo" -> "demo"
      [] w = "User" -> "user"
      [] w = "Ada"  -> "ada"
      [] OTHER      -> w

\* user_name.lower().replace(" ", "-")
UserIdOf(user_name) ==
    [i \in 1..Len(user_name) |->
        IF user_name[i] = " " THEN "-" ELSE LowerToken(user_name[i])]

\* f"session-{user_id}"
ClientSessionId(user_id) == <<"session-">> \o user_id

\* the record of the client's add_memory call
ClientNote(user_name) == <<"Session started for">> \o user_name
ClientMetadata(user_id) == [session_id |-> ClientSessionId(user_id)]

\* the script imports config.settings and services.tools_service
ClientUp == SettingsLoads(env) /\ ToolsServiceInit(env)

\* the session state as it is now
CurrentSession == SessionState(c_user_id, c_session_id, c_history, c_memories)

\* variant: the session state is assigned before the memory is initialized
InitSession_AssignsFirst ==
    /\ ClientUp
    /\ Len(store) < MaxStore
    /\ c_before' = CurrentSession
    /\ \E user_name \in UserNames :
          LET user_id == UserIdOf(user_name)
          IN  /\ c_user_id' = <<user_id>>
              /\ c_session_id' = <<ClientSessionId(user_id)>>
              /\ c_history' = <<>>
              /\ c_memories' = <<>>
              /\ IF mem0_enabled
                 THEN \/ /\ store' = add_memory(store, user_id, ClientNote(user_name),
                                                ClientMetadata(user_id))
                         /\ c_last' = [op |-> "init", ok |-> TRUE]
                      \/ /\ c_last' = [op |-> "init", ok |-> FALSE]
                         /\ UNCHANGED store
                 ELSE /\ c_last' = [op |-> "init", ok |-> TRUE]
                      /\ UNCHANGED store
    /\ UNCHANGED <<c_mode, c_last_agent, c_sent>>
    /\ UNCHANGED client_frame

\* the button "Initialize New Session"
InitSession ==
    /\ ClientUp
    /\ Len(store) < MaxStore
    /\ c_before' = CurrentSession
    /\ \E user_name \in UserNames :
          LET user_id == UserIdOf(user_name)
              assigned ==
                  /\ c_user_id' = <<user_id>>
                  /\ c_session_id' = <<ClientSessionId(user_id)>>
                  /\ c_history' = <<>>
                  /\ c_memories' = <<>>
                  /\ c_last' = [op |-> "init", ok |-> TRUE]
          IN  IF mem0_enabled
              THEN \/ /\ store' = add_memory(store, user_id, ClientNote(user_name),
                                             ClientMetadata(user_id))
                      /\ assigned
                   \/ /\ c_last' = [op |-> "init", ok |-> FALSE]
                      /\ UNCHANGED <<store, c_user_id, c_session_id, c_history, c_memories>>
              ELSE /\ assigned
                   /\ UNCHANGED store
    /\ UNCHANGED <<c_mode, c_last_agent, c_sent>>
    /\ UNCHANGED client_frame

\* the button "End Session", shown while a session is active
EndSession ==
    /\ ClientUp
    /\ c_session_id # <<>>
    /\ c_before' = CurrentSession
    /\ c_session_id' = <<>>
    /\ c_user_id' = <<>>
    /\ c_last' = [op |-> "end", ok |-> TRUE]
    /\ UNCHANGED <<c_history, c_memories, c_mode, c_last_agent, c_sent, store>>
    /\ UNCHANGED client_frame

\* the radio "Choose interaction mode", shown while a session is active
SelectMode ==
    /\ ClientUp
    /\ c_session_id # <<>>
    /\ \E m \in {"text", "video", "voice"} : m # c_mode /\ c_mode' = m
    /\ c_before' = CurrentSession
    /\ c_last' = [op |-> "mode", ok |-> TRUE]
    /\ UNCHANGED <<c_user_id, c_session_id, c_history, c_memories, c_last_agent, c_sent,
                   store>>
    /\ UNCHANGED client_frame

\* the texts typed into the chat input
UserInputs == {<<"hi">>, <<"flight", "to", "Tokyo">>}

\* the "data:" lines the backend may answer with; the last one has no content
BackendStreams ==
    { <<>>,
      <<ContentEvent(<<"Searching for travel options...">>, "travel", "text"),
        ContentEvent(<<"answer", "text">>, "travel", "text")>>,
      <<ErrorEvent(<<"rate limit">>)>>,
      <<[agent |-> "research", mode |-> "text"]>> }

RECURSIVE stream_response(_, _)
\* for each line: if "content" in data: text += data["content"];
\* agent = data.get("agent", agent)
stream_response(lines, stream_state) ==
    IF lines = <<>> THEN stream_state
    ELSE LET data == Head(lines)
         IN  stream_response(Tail(lines),
                IF "content" \in DOMAIN data
                THEN [text |-> stream_state.text \o data.content,
                      agent |-> IF "agent" \in DOMAIN data
                                THEN data.agent ELSE stream_state.agent]
                ELSE stream_state)

\* {"role": msg["role"], "content": msg["content"]} for each msg
RolesAndContents(history) ==
    [i \in 1..Len(history) |-> [role |-> history[i].role, content |-> history[i].content]]

\* a text is typed into the chat input (text mode): the turn is appended, the
\* request is posted and the streamed answer is appended; if the exchange raises
\* (no connection, timeout, a line that is no JSON) only the error is shown
ChatInput ==
    /\ ClientUp
    /\ c_session_id # <<>>
    /\ c_mode = "text"
    /\ Len(c_history) < MaxTurns
    /\ c_before' = CurrentSession
    /\ \E user_input \in UserInputs :
          LET appended == Append(c_history, [role |-> "user", content |-> user_input])
          IN  /\ c_sent' = <<[user_id |-> c_user_id[1],
                              session_id |-> c_session_id[1],
                              message |-> user_input,
                              mode |-> "text",
                              conversation_history |->
                                  RolesAndContents(SubSeq(appended, 1, Len(appended) - 1))]>>
              /\ \/ /\ c_history' = appended
                    /\ c_last' = [op |-> "chat", ok |-> FALSE]
                    /\ UNCHANGED c_last_agent
                 \/ \E lines \in BackendStreams :
                       LET stream_state ==
                               stream_response(lines, [text |-> <<>>, agent |-> "unknown"])
                       IN  /\ c_history' = Append(appended,
                                                  [role |-> "assistant",
                                                   content |-> stream_state.text,
                                                   agent |-> stream_state.agent])
                           /\ c_last_agent' = <<stream_state.agent>>
                           /\ c_last' = [op |-> "chat", ok |-> TRUE]
    /\ UNCHANGED <<c_user_id, c_session_id, c_memories, c_mode, store>>
    /\ UNCHANGED client_frame

NextClient ==
    \/ InitSession
    \/ EndSession
    \/ SelectMode
    \/ ChatInput

SpecClient == Init /\ [][NextClient]_vars

(***************************************************************************)
(* The voice service (src/services/voice_service.py)                       *)
(***************************************************************************)
\* everything outside the voice service
voice_frame == <<stream_vars, legacy_vars, boot_vars, api_vars, client_vars>>

\* "if audio_bytes and len(audio_bytes) > 1000"
MinAudioBytes == 1000

\* bool(credential): set and not empty
Truthy(credential) == credential \notin {Unset, <<"">>}

RECURSIVE LStrip(_)
\* leading blanks removed
LStrip(t) == IF t # <<>> /\ Head(t) = " " THEN LStrip(Tail(t)) ELSE t

RECURSIVE RStrip(_)
\* trailing blanks removed
RStrip(t) == IF t # <<>> /\ t[Len(t)] = " " THEN RStrip(SubSeq(t, 1, Len(t) - 1)) ELSE t

\* str.strip()
Strip(t) == RStrip(LStrip(t))

\* one provider call: which provider, which gTTS configuration (0 if none),
\* whether it raised, and the number of bytes it produced
VoiceCall(provider, config, raised, size) ==
    [provider |-> provider, config |-> config, raised |-> raised, size |-> size]

\* audio bytes, told apart by where they come from and by their length
Audio(provider, config, size) == [provider |-> provider, config |-> config, size |-> size]

\* what a method returned, or that it raised
Returned(op, input, result) == [op |-> op, input |-> input, result |-> result, raised |-> FALSE]
Raised(op, input) == [op |-> op, input |-> input, result |-> <<>>, raised |-> TRUE]

\* the texts the transcription provider may return
Transcriptions == {<<>>, <<" ", "hello", " ">>}

\* the texts given to text_to_speech: empty, blank, and one to speak
Texts == {<<>>, <<" ">>, <<"hello">>}

\* len(response.content) of the OpenAI answers tried
OpenAISizes == {0, MinAudioBytes + 1}

\* what gTTS may do for one configuration: raise, or write this many bytes
GttsOutcomes ==
    {[raised |-> TRUE, size |-> 0],
     [raised |-> FALSE, size |-> MinAudioBytes],
     [raised |-> FALSE, size |-> MinAudioBytes + 1]}

\* the three configurations of _gtts_fallback, in the order of the list
configs ==
    <<[lang |-> "en", slow |-> FALSE, tld |-> "com"],
      [lang |-> "en", slow |-> FALSE, tld |-> "co.uk"],
      [lang |-> "en", slow |-> TRUE, tld |-> "com"]>>

\* VoiceService.__init__, run when the module is imported
VoiceInit ==
    /\ ~v_loaded
    /\ SettingsLoads(env)
    /\ v_loaded' = TRUE
    /\ groq_client' = Truthy(env["groq_api"])
    /\ \E openai_api_key \in Credentials : openai_client' = Truthy(openai_api_key)
    /\ UNCHANGED <<v_last, v_calls>>
    /\ UNCHANGED voice_frame

\* variant: the provider's exception is not caught
transcribe_audio_Propagates ==
    /\ v_loaded
    /\ IF ~groq_client
       THEN /\ v_last' = Returned("transcribe_audio", <<>>, <<>>)
            /\ v_calls' = <<>>
       ELSE \/ \E transcription \in Transcriptions :
                  /\ v_last' = Returned("transcribe_audio", <<>>, Strip(transcription))
                  /\ v_calls' = <<VoiceCall("groq", 0, FALSE, 0)>>
            \/ /\ v_last' = Raised("transcribe_audio", <<>>)
               /\ v_calls' = <<VoiceCall("groq", 0, TRUE, 0)>>
    /\ UNCHANGED <<v_loaded, groq_client, openai_client>>
    /\ UNCHANGED voice_frame

\* transcribe_audio: "" without a client or when the call raises
transcribe_audio ==
    /\ v_loaded
    /\ IF ~groq_client
       THEN /\ v_last' = Returned("transcribe_audio", <<>>, <<>>)
            /\ v_calls' = <<>>
       ELSE \/ \E transcription \in Transcriptions :
                  /\ v_last' = Returned("transcribe_audio", <<>>, Strip(transcription))
                  /\ v_calls' = <<VoiceCall("groq", 0, FALSE, 0)>>
            \/ /\ v_last' = Returned("transcribe_audio", <<>>, <<>>)
               /\ v_calls' = <<VoiceCall("groq", 0, TRUE, 0)>>
    /\ UNCHANGED <<v_loaded, groq_client, openai_client>>
    /\ UNCHANGED voice_frame

RECURSIVE TryConfigs_AtLeast(_, _)
\* variant: audio of exactly the threshold length is accepted
TryConfigs_AtLeast(i, outcomes) ==
    IF i > Len(configs) THEN [result |-> <<>>, calls |-> <<>>]
    ELSE LET o == outcomes[i]
             call == VoiceCall("gtts", i, o.raised, o.size)
         IN  IF ~o.raised /\ o.size >= MinAudioBytes
             THEN [result |-> <<Audio("gtts", i, o.size)>>, calls |-> <<call>>]
             ELSE LET rest == TryConfigs_AtLeast(i + 1, outcomes)
                  IN  [result |-> rest.result, calls |-> <<call>> \o rest.calls]

RECURSIVE TryConfigs(_, _)
\* "for config in configs", from the i-th configuration on: the first audio longer
\* than MinAudioBytes is returned; a configuration that raises or writes less is
\* passed over; None (<<>>) after the last one
TryConfigs(i, outcomes) ==
    IF i > Len(configs) THEN [result |-> <<>>, calls |-> <<>>]
    ELSE LET o == outcomes[i]
             call == VoiceCall("gtts", i, o.raised, o.size)
         IN  IF ~o.raised /\ o.size > MinAudioBytes
             THEN [result |-> <<Audio("gtts", i, o.size)>>, calls |-> <<call>>]
             ELSE LET rest == TryConfigs(i + 1, outcomes)
                  IN  [result |-> rest.result, calls |-> <<call>> \o rest.calls]

\* _gtts_fallback: "from gtts import gTTS" may raise, which the outer except
\* clause turns into None before any configuration is tried
gtts_fallback(import_ok, outcomes) ==
    IF import_ok
    THEN TryConfigs(1, outcomes)
    ELSE [result |-> <<>>, calls |-> <<VoiceCall("gtts-import", 0, TRUE, 0)>>]

\* not text or not text.strip()
NoText(text) == text = <<>> \/ Strip(text) = <<>>

\* text_to_speech: OpenAI first when its client is set, else or on failure gTTS
text_to_speech ==
    /\ v_loaded
    /\ \E text \in Texts :
          IF NoText(text)
          THEN /\ v_last' = Returned("text_to_speech", text, <<>>)
               /\ v_calls' = <<>>
          ELSE \/ /\ openai_client
                  /\ \E size \in OpenAISizes :
                        /\ v_last' = Returned("text_to_speech", text,
                                              <<Audio("openai", 0, size)>>)
                        /\ v_calls' = <<VoiceCall("openai", 0, FALSE, size)>>
               \/ \E import_ok \in BOOLEAN, outcomes \in [1..Len(configs) -> GttsOutcomes] :
                     LET failed == IF openai_client
                                   THEN <<VoiceCall("openai", 0, TRUE, 0)>> ELSE <<>>
                         fallback == gtts_fallback(import_ok, outcomes)
                     IN  /\ v_last' = Returned("text_to_speech", text, fallback.result)
                         /\ v_calls' = failed \o fallback.calls
    /\ UNCHANGED <<v_loaded, groq_client, openai_client>>
    /\ UNCHANGED voice_frame

NextVoice ==
    \/ VoiceInit
    \/ transcribe_audio
    \/ text_to_speech

SpecVoice == Init /\ [][NextVoice]_vars

(***************************************************************************)
(* Specifications                                                          *)
(***************************************************************************)
Stream ==
    \/ StartRequest
    \/ FetchMemory
    \/ ResolveAgent
    \/ AgentStatus
    \/ Relay
    \/ AgentContext
    \/ AgentTool
    \/ AgentLLM
    \/ AgentSave
    \/ WriteBack

\* the Router keeps the closed-set guarantee of its contract
Next == Stream \/ Route

Spec == Init /\ [][Next]_vars

\* the Router may also regress and propagate the classifier's identifier
NextRegressed == Stream \/ Route \/ RouteRegressed

SpecRegressed == Init /\ [][NextRegressed]_vars

\* requests may also be cancelled
NextCancel == Stream \/ Route \/ CancelRequest

SpecCancel == Init /\ [][NextCancel]_vars

\* both streaming endpoints, one request at a time, the Router regressed or not
NextService == Stream \/ Route \/ RouteRegressed \/ Legacy

SpecService == Init /\ [][NextService]_vars

\* the multi-agent stream and the request/response endpoints, one request at a time
NextApi == Stream \/ Route \/ RouteRegressed \/ Api

SpecApi == Init /\ [][NextApi]_vars

(***************************************************************************)
(* Observations used by the properties                                     *)
(***************************************************************************)
IsError(ev) == "error" \in DOMAIN ev
HasAgent(ev) == "agent" \in DOMAIN ev

ErrorEvents == SelectSeq(events, IsError)
ContentEvents == SelectSeq(events, HasAgent)

\* the content values of a sequence of events, in emission order
Contents(evs) == [i \in 1..Len(evs) |-> evs[i].content]

\* the records appended to the Memory Store since the request arrived
Appended == SubSeq(store, Len(store_before) + 1, Len(store))

\* some call of op made by `by` for this request raised
Failed(op, by) ==
    \E i \in 1..Len(calls) : calls[i].op = op /\ calls[i].by = by /\ ~calls[i].ok

Succeeded(op, by) ==
    \E i \in 1..Len(calls) : calls[i].op = op /\ calls[i].by = by /\ calls[i].ok

AnyFailed == \E i \in 1..Len(calls) : ~calls[i].ok

Terminated == pc \in {"done", "errored"}

\* the events a client receives when every produced fragment was relayed
RelayOf(frags) ==
    [i \in 1..Len(frags) |-> ContentEvent(frags[i], recommended_agent[1], payload.mode)]

(***************************************************************************)
(* C1: when the Completion Provider call fails during generation, exactly  *)
(* one error fragment is emitted and neither the agent nor the             *)
(* orchestrator appends a MemoryRecord for that request.                   *)
(***************************************************************************)
C1_ProviderFailure ==
    Failed("ainvoke", "agent") =>
        /\ Len(ErrorEvents) = 1
        /\ IsError(events[Len(events)])
        /\ store = store_before
        /\ ~Succeeded("add_memory", "agent")
        /\ ~Succeeded("add_memory", "orchestrator")

\* the provider failed after the status fragment had been relayed
C1_Witness ==
    /\ Failed("ainvoke", "agent")
    /\ pc = "errored"
    /\ Len(ContentEvents) = 1

C3_MemoryReadFailureDegrades ==
    (Failed("retrieve_memories", "orchestrator") \/ Failed("retrieve_memories", "agent")) =>
        /\ ErrorEvents = <<>>
        /\ pc # "errored"
        /\ (Terminated /\ Failed("retrieve_memories", "orchestrator")) =>
              router_memories = << <<>> >>

(***************************************************************************)
(* C4: a request that completes appends exactly one MemoryRecord: the      *)
(* orchestrator's write-back and the agent's never both happen.            *)
(***************************************************************************)
C4_ExactlyOneRecord ==
    pc = "done" =>
        /\ Len(Appended) = 1
        /\ ~(Succeeded("add_memory", "agent") /\ Succeeded("add_memory", "orchestrator"))

(***************************************************************************)
(* C5: a failing Memory Store append during write-back (by the agent after *)
(* its last fragment, or by the orchestrator) does not change what the     *)
(* client receives: the produced fragments and no error fragment.          *)
(***************************************************************************)
C5_WriteBackFailureInvisible ==
    (Failed("add_memory", "agent") \/ Failed("add_memory", "orchestrator")) =>
        /\ ErrorEvents = <<>>
        /\ events = RelayOf(produced)

(***************************************************************************)
(* C6: the agent field of every emitted fragment is a key of the Agent     *)
(* Registry, and the keys are the configured agent domains.                *)
(***************************************************************************)
C6_AgentFieldInDomainSet ==
    /\ DOMAIN AGENT_REGISTRY = Range(agent_domains)
    /\ \A i \in 1..Len(events) :
          HasAgent(events[i]) => events[i].agent \in Range(agent_domains)

\* a fragment with an agent field has been emitted
C6_Witness ==
    /\ Len(events) >= 2
    /\ HasAgent(events[1])
    /\ HasAgent(events[2])

(***************************************************************************)
(* C7: when a failure is raised while the agent's fragment sequence is     *)
(* drained, the client has received exactly the k fragments produced so    *)
(* far, unchanged and in order, then one error fragment and nothing more.  *)
(***************************************************************************)
C7_FailureWhileDraining ==
    agent_pc.at = "aborted" =>
        /\ Len(events) = Len(produced) + 1
        /\ SubSeq(events, 1, Len(produced)) = RelayOf(produced)
        /\ IsError(events[Len(events)])
        /\ pc = "errored"

\* a failure after two fragments were relayed
C7_Witness ==
    /\ agent_pc.at = "aborted"
    /\ Len(produced) = 2
    /\ produced[2] # <<>>
    /\ Len(events) = 3

\* the phase a collaborator call belongs to
Phase(c) ==
    IF c.by = "agent" THEN 3
    ELSE IF c.op = "retrieve_memories" THEN 1
    ELSE IF c.op = "route" THEN 2
    ELSE 4

\* what the fetch of this request returns
FetchedMemories ==
    IF mem0_enabled
    THEN <<[memories |-> retrieve_memories(store_before, payload.user_id, MemoryLimit),
            user_id |-> payload.user_id]>>
    ELSE <<>>

(***************************************************************************)
(* C8: the phases of a request run in the order memory fetch, routing,     *)
(* streaming, write-back.  The Router is invoked once the fetch is over    *)
(* and receives the memory fetched; nothing is relayed before routing has  *)
(* returned; the orchestrator's write-back starts after the fragment       *)
(* sequence ended normally and sees the whole accumulated text.            *)
(***************************************************************************)
C8_PhaseOrder ==
    /\ \A i, j \in 1..Len(calls) : i < j => Phase(calls[i]) <= Phase(calls[j])
    /\ router_memories # <<>> =>
          /\ router_memories = <<FetchedMemories>>
          /\ mem0_enabled => calls[1] = Call("retrieve_memories", "orchestrator", TRUE)
    /\ (ContentEvents # <<>> \/ produced # <<>> \/ agent_pc # AgentIdle) =>
          /\ Succeeded("route", "orchestrator")
          /\ recommended_agent # <<>>
    /\ (pc \in {"writeback", "done"} \/ Succeeded("add_memory", "orchestrator")
          \/ Failed("add_memory", "orchestrator")) =>
          /\ agent_pc.at = "end"
          /\ chunk = <<>>
          /\ full_response = Concat(produced)
          /\ ContentEvents = RelayOf(produced)

\* a completed request whose Router received memories written by an earlier one
C8_Witness ==
    /\ pc = "done"
    /\ Succeeded("add_memory", "orchestrator")
    /\ router_memories # <<>>
    /\ router_memories[1] # <<>>
    /\ router_memories[1][1].memories # <<>>

(***************************************************************************)
(* C9: when routing fails with a classification error the request ends     *)
(* errored with exactly one error fragment: no agent is resolved or        *)
(* invoked, no content fragment is emitted, no MemoryRecord is appended.   *)
(***************************************************************************)
C9_ClassificationErrorFatal ==
    Failed("route", "orchestrator") =>
        /\ pc = "errored"
        /\ events = <<ErrorEvent(ClassificationError)>>
        /\ recommended_agent = <<>>
        /\ agent_pc = AgentIdle
        /\ produced = <<>>
        /\ store = store_before
        /\ calls[Len(calls)] = Call("route", "orchestrator", FALSE)

\* routing failed after the memories were fetched
C9_Witness ==
    /\ Failed("route", "orchestrator")
    /\ Succeeded("retrieve_memories", "orchestrator")
    /\ Len(events) = 1

\* the routing decision names a domain the registry does not hold
UnknownRouted ==
    /\ recommended_agent # <<>>
    /\ recommended_agent[1] \notin DOMAIN AGENT_REGISTRY

(***************************************************************************)
(* C10: when the routing decision names a domain absent from the Agent     *)
(* Registry the request is fatal: one error fragment surfaces the failure, *)
(* no agent runs, no content fragment is emitted and no MemoryRecord is    *)
(* appended.                                                               *)
(***************************************************************************)
C10_UnknownDomainFatal ==
    (UnknownRouted /\ pc # "resolve") =>
        /\ pc = "errored"
        /\ events = <<ErrorEvent(<<"Unknown agent:", recommended_agent[1]>>)>>
        /\ agent_pc = AgentIdle
        /\ produced = <<>>
        /\ store = store_before
        /\ calls[Len(calls)] = Call("route", "orchestrator", TRUE)

\* the Router named the unknown domain and the request has ended
C10_Witness ==
    /\ UnknownRouted
    /\ recommended_agent[1] = UnknownDomain
    /\ pc = "errored"

\* the Tool Provider operations
ToolOps == {"search_news", "query_documents", "search_jobs", "search_recipes"}

\* a Tool Provider call of the agent raised, and no other call did
OnlyToolFailed ==
    /\ \E op \in ToolOps : Failed(op, "agent")
    /\ \A i \in 1..Len(calls) : ~calls[i].ok => calls[i].op \in ToolOps

(***************************************************************************)
(* C11: a failing Tool Provider call does not abort the request: the agent *)
(* goes on with an empty result set, still invokes the Completion Provider *)
(* and its fragments are streamed; no error fragment is emitted.           *)
(***************************************************************************)
C11_ToolFailureTolerated ==
    OnlyToolFailed =>
        /\ agent_pc.at # "aborted"
        /\ pc # "errored"
        /\ ErrorEvents = <<>>
        /\ Terminated => Succeeded("ainvoke", "agent")

(***************************************************************************)
(* C12: the fragments an agent's process produces are exactly the output   *)
(* fragments of the Completion Provider, unchanged and in arrival order:   *)
(* the agent adds no fragment of its own and drops none.                   *)
(***************************************************************************)
C12_ForwardsProviderFragments ==
    produced = completion

\* the positions of process before its add_memory has returned, and after an exception
AgentBeforeSave == {"idle", "start", "context", "tools", "llm", "save", "aborted"}

(***************************************************************************)
(* C13: a call of process drained to normal completion has appended        *)
(* exactly one MemoryRecord, holding the truncated message and tagged with *)
(* the agent's own domain; before that, and after an exception of a        *)
(* provider, nothing has been appended.                                    *)
(***************************************************************************)
C13_AgentWriteBack ==
    /\ agent_pc.at = "end" =>
          /\ Len(Appended) >= 1
          /\ Appended[1].owner = payload.user_id
          /\ Len(Appended[1].message) = 1 + Min(Len(payload.message), TruncLen)
          /\ Appended[1].message[1] = AGENT_REGISTRY[recommended_agent[1]].note
          /\ \A i \in 1..Min(Len(payload.message), TruncLen) :
                Appended[1].message[i + 1] = payload.message[i]
          /\ Appended[1].metadata.domain = recommended_agent[1]
          /\ Appended[1].metadata.query = payload.message
          /\ Cardinality({i \in 1..Len(Appended) : "domain" \in DOMAIN Appended[i].metadata}) = 1
    /\ agent_pc.at \in AgentBeforeSave => Appended = <<>>

\* process completed for a message longer than the truncation length
C13_Witness ==
    /\ agent_pc.at = "end"
    /\ Len(payload.message) > TruncLen
    /\ Len(Appended) = 1

(***************************************************************************)
(* C14: a request cancelled while the orchestrator is Streaming (also      *)
(* while it waits for the agent's next fragment or for the end of the      *)
(* agent's sequence) appends no MemoryRecord, by the orchestrator or by    *)
(* the agent, and emits no error fragment.                                 *)
(***************************************************************************)
C14_CancelledStreamWritesNothing ==
    (pc = "cancelled" /\ agent_pc.at = "cancelled") =>
        /\ Appended = <<>>
        /\ ErrorEvents = <<>>

(***************************************************************************)
(* C15: during Streaming the content events correspond one to one, in      *)
(* order, to the fragments the agent produced, and a fragment is relayed   *)
(* before the next one is requested: at most one produced fragment is not  *)
(* yet relayed.                                                            *)
(***************************************************************************)
C15_RelayedOneByOne ==
    /\ SubSeq(events, 1, Len(ContentEvents)) = ContentEvents
    /\ ContentEvents = RelayOf(SubSeq(produced, 1, Len(ContentEvents)))
    /\ Len(produced) = Len(ContentEvents) + Len(chunk)
    /\ chunk # <<>> => chunk[1] = produced[Len(produced)]

\* the second fragment is produced when the first has been relayed
C15_Witness ==
    /\ pc = "stream"
    /\ Len(produced) = 2
    /\ Len(ContentEvents) = 1
    /\ chunk = <<produced[2]>>

\* an event of the legacy stream that reports a failure
LegacyIsError(ev) == ev.content # <<>> /\ ev.content[1] = "Error:"

LegacyErrorEvents == SelectSeq(l_events, LegacyIsError)

\* the events a client of the legacy stream receives for the yielded fragments
LegacyRelayOf(frags) == [i \in 1..Len(frags) |-> LegacyContentEvent(frags[i])]

\* the request failed: a collaborator call raised or no agent could be resolved
RequestFailed == AnyFailed \/ (UnknownRouted /\ pc # "resolve")

(***************************************************************************)
(* C16: a request emits at most one error event, and it is the last event  *)
(* of the response, whatever failed (memory, classification, resolution,   *)
(* generation, write-back) on the multi-agent stream, and for a provider   *)
(* failure on the legacy stream.                                           *)
(***************************************************************************)
C16_SingleTerminalError ==
    /\ Len(ErrorEvents) <= 1
    /\ ErrorEvents # <<>> => (IsError(events[Len(events)]) /\ pc = "errored")
    /\ RequestFailed => (Len(ErrorEvents) = 1 /\ pc = "errored")
    /\ Len(LegacyErrorEvents) <= 1
    /\ LegacyErrorEvents # <<>> =>
          (LegacyIsError(l_events[Len(l_events)]) /\ l_pc = "errored")
    /\ l_pc = "errored" =>
          /\ Len(LegacyErrorEvents) = 1
          /\ SubSeq(l_events, 1, Len(l_events) - 1) = LegacyRelayOf(l_yielded)

\* the orchestrator's write-back failed after both fragments were relayed
C16_Witness ==
    /\ Failed("add_memory", "orchestrator")
    /\ Len(events) = 3
    /\ IsError(events[3])

(***************************************************************************)
(* C17: every event of the multi-agent stream, content events and the      *)
(* error event alike, carries a mode field equal to the request's mode and *)
(* an agent field; an error event also carries error and content.          *)
(***************************************************************************)
C17_EveryEventCarriesModeAndAgent ==
    \A i \in 1..Len(events) :
        /\ "mode" \in DOMAIN events[i]
        /\ events[i].mode = payload.mode
        /\ "agent" \in DOMAIN events[i]
        /\ "content" \in DOMAIN events[i]

\* the status lines of the agents: the first fragment of a call of process
StatusLines == {AGENT_REGISTRY[d].status : d \in DOMAIN AGENT_REGISTRY}

\* how often a collaborator operation was called for this request
CallCount(op) == Cardinality({i \in 1..Len(calls) : calls[i].op = op})

(***************************************************************************)
(* C18: one agent runs per request: the Router is invoked at most once, at *)
(* most one agent's process is invoked, and the Completion Provider is     *)
(* called at most once, by the agent of the routed domain.                 *)
(***************************************************************************)
C18_OneAgentPerRequest ==
    /\ Len(router_memories) <= 1
    /\ CallCount("route") <= 1
    /\ Cardinality({i \in 1..Len(produced) : produced[i] \in StatusLines}) <= 1
    /\ produced # <<>> => produced[1] = AGENT_REGISTRY[recommended_agent[1]].status
    /\ CallCount("ainvoke") <= 1
    /\ Len(completion) <= 1
    /\ \A i \in 1..Len(calls) :
          (calls[i].by = "agent" /\ calls[i].op \in ToolOps) =>
              calls[i].op \in Range(AGENT_REGISTRY[recommended_agent[1]].tools)

\* a completed request: one routing, one agent, one completion
C18_Witness ==
    /\ pc = "done"
    /\ CallCount("route") = 1
    /\ CallCount("ainvoke") = 1
    /\ Len(produced) = 2

\* the classifier answered with an identifier outside the known domain set
UnknownClassified ==
    /\ classified_domain # <<>>
    /\ classified_domain[1] \notin Range(agent_domains)

(***************************************************************************)
(* C19: when the classification yields an identifier outside the known     *)
(* domain set, the routing decision names the default domain and the       *)
(* default agent's fragments are relayed; the orchestrator never sees an   *)
(* identifier outside the known set.                                       *)
(***************************************************************************)
C19_UnknownClassificationDefaults ==
    /\ recommended_agent # <<>> => recommended_agent[1] \in Range(agent_domains)
    /\ UnknownClassified =>
          /\ recommended_agent = <<DefaultDomain>>
          /\ pc \in {"stream", "writeback", "done"} => agent_pc # AgentIdle
          /\ produced # <<>> => produced[1] = AGENT_REGISTRY[DefaultDomain].status
          /\ \A i \in 1..Len(events) :
                HasAgent(events[i]) => events[i].agent = DefaultDomain
          /\ ~AnyFailed => ErrorEvents = <<>>

\* an unknown classification was served to the end by the default agent
C19_Witness ==
    /\ classified_domain = <<UnknownDomain>>
    /\ pc = "done"
    /\ Len(ContentEvents) = 2
    /\ ContentEvents[1].agent = DefaultDomain

(***************************************************************************)
(* C20: the legacy completion stream does no routing and no Memory Store   *)
(* read or append, none of its events has an agent field, and a provider   *)
(* failure is reported as an event whose content holds the error string.   *)
(***************************************************************************)
C20_LegacyStream ==
    /\ l_pc # "idle" =>
          /\ store = store_before
          /\ calls = <<>>
          /\ router_memories = <<>>
          /\ recommended_agent = <<>>
          /\ agent_pc = AgentIdle
    /\ \A i \in 1..Len(l_events) : DOMAIN l_events[i] = {"content"}
    /\ l_pc = "errored" =>
          /\ l_calls[Len(l_calls)] = LegacyCall("create", FALSE)
          /\ \E e \in ProviderErrors :
                l_events[Len(l_events)] = [content |-> <<"Error:">> \o e]

\* the provider failed after a fragment was relayed, with records in the store
C20_Witness ==
    /\ l_pc = "errored"
    /\ Len(l_events) = 2
    /\ l_yielded # <<>>
    /\ store # <<>>

\* no collaborator was invoked and no fragment was emitted for a stream
NoStreamActivity ==
    /\ calls = <<>>
    /\ agent_pc = AgentIdle
    /\ produced = <<>>
    /\ completion = <<>>
    /\ events = <<>>

(***************************************************************************)
(* C21: the agent-listing query is read-only: it invokes neither the       *)
(* Router nor a Domain Agent nor the Completion Provider, appends no       *)
(* MemoryRecord and leaves the Agent Registry unchanged; the domain        *)
(* identifiers it lists are exactly the keys of the Agent Registry.        *)
(***************************************************************************)
C21_AgentListingReadOnly ==
    api_op = "agents" =>
        /\ api_calls = <<>>
        /\ router_memories = <<>>
        /\ NoStreamActivity
        /\ store = store_before
        /\ registry = AGENT_REGISTRY
        /\ api_response.status_code = 200
        /\ Range(api_response.agents) = DOMAIN registry
        /\ Len(api_response.agents) = Cardinality(DOMAIN registry)

\* the listing was served while the Memory Store holds records
C21_Witness == api_op = "agents" /\ store # <<>>

\* some required credential is not set or is empty
CredentialMissing == \E k \in RequiredKeys : env[k] \in {Unset, <<"">>}

\* some request has been accepted by some endpoint
RequestAccepted == pc # "idle" \/ l_pc # "idle" \/ api_op # "none"

C23_RegistryImmutable ==
    /\ DOMAIN registry = Range(agent_domains)
    /\ \A d \in DOMAIN registry : registry[d] = AGENT_REGISTRY[d] /\ registry[d].domain = d

\* a lookup missed the registry, after earlier requests left records
C23_Witness ==
    /\ pc = "errored"
    /\ store # <<>>
    /\ recommended_agent = <<UnknownDomain>>
    /\ events = <<ErrorEvent(<<"Unknown agent:", UnknownDomain>>)>>

(***************************************************************************)
(* C24: the core only appends to and reads from the Memory Store: every    *)
(* step of every operation (session creation, routing, streaming) leaves   *)
(* each record that existed before in place and unchanged.                 *)
(***************************************************************************)
C24_MemoryAppendOnly ==
    [][/\ Len(store') >= Len(store)
       /\ SubSeq(store', 1, Len(store)) = store]_vars

\* a session was created for a user whose stream had already left a record
C24_Witness ==
    /\ api_op = "session"
    /\ Len(store) = 2
    /\ store[1].owner = store[2].owner
    /\ "domain" \in DOMAIN store[1].metadata
    /\ store[2].message = <<"User", "Demo", "initialized.">>

\* text e occurs in text t
Contains(t, e) == \E i \in 0..Len(t) : i + Len(e) <= Len(t) /\ SubSeq(t, i + 1, i + Len(e)) = e

\* the event repeats the text of a provider exception
CopiesProviderText(ev) == \E e \in ProviderErrors : Contains(ev.content, e)

(***************************************************************************)
(* C25: the content of a user-visible error fragment does not depend on    *)
(* the provider's error text: no raw exception text is copied into it, so  *)
(* failures at the same point with different provider messages read alike. *)
(***************************************************************************)
C25_ErrorContentHidesProviderText ==
    /\ \A i \in 1..Len(events) : ~CopiesProviderText(events[i])
    /\ \A i \in 1..Len(l_events) : ~CopiesProviderText(l_events[i])

\* the operations of the collaborator calls route_message made
ApiOps == {api_calls[i].op : i \in 1..Len(api_calls)}

ApiFailed == \E i \in 1..Len(api_calls) : ~api_calls[i].ok

(***************************************************************************)
(* C26: the routing operation is read-only: a call to the route endpoint   *)
(* appends no MemoryRecord, invokes no Domain Agent and emits no fragment, *)
(* whatever its outcome; it only reads memory and returns the routing      *)
(* decision, or fails with HTTP 500.                                       *)
(***************************************************************************)
C26_RouteReadOnly ==
    api_op = "route" =>
        /\ store = store_before
        /\ NoStreamActivity
        /\ ApiOps \subseteq {"retrieve_memories", "route"}
        /\ "retrieve_memories" \in ApiOps <=> mem0_enabled
        /\ IF ApiFailed
           THEN api_response.status_code = 500
           ELSE /\ api_response.status_code = 200
                /\ api_response.status = "routed"
                /\ api_response.recommended_agent \in Range(agent_domains)

\* a decision was returned after the user's records were read
C26_Witness ==
    /\ api_op = "route"
    /\ api_response.status_code = 200
    /\ router_memories # <<>>
    /\ router_memories[1] # <<>>
    /\ router_memories[1][1].count > 0

\* the operations of the collaborator calls made for the stream request
StreamOps == {calls[i].op : i \in 1..Len(calls)}

(***************************************************************************)
(* C27: with memory disabled (mem0_enabled false), serving a multi-agent   *)
(* stream request performs no Memory Store read and no append at any step, *)
(* the Domain Agent included; Router and agent get a null memory context.  *)
(***************************************************************************)
C27_DisabledMemoryUntouched ==
    ~mem0_enabled =>
        /\ StreamOps \cap {"retrieve_memories", "add_memory"} = {}
        /\ store = store_before
        /\ user_memories = <<>>
        /\ \A i \in 1..Len(router_memories) : router_memories[i] = <<>>

\* the number of chat.completions.create calls of the kind op
LegacyCallCount(op) == Cardinality({i \in 1..Len(l_calls) : l_calls[i].op = op})

\* the streaming call raised, when it was created or while it was iterated
StreamingFailed ==
    \E i \in 1..Len(l_calls) : l_calls[i].op \in {"create_stream", "iterate"} /\ ~l_calls[i].ok

\* the fragment the non-streaming answer contributes
FallbackFragment == IF l_fallback # <<>> /\ l_fallback[1] # <<>> THEN <<l_fallback[1]>> ELSE <<>>

(***************************************************************************)
(* C28: in stream_chat_completion, if the streaming call fails (when it is *)
(* created or after k >= 0 fragments), the non-streaming call is issued    *)
(* exactly once; its content, if not empty, is yielded as one more         *)
(* fragment; a failure of that call propagates without another retry.      *)
(***************************************************************************)
C28_FallbackOnce ==
    /\ LegacyCallCount("create") <= 1
    /\ LegacyCallCount("create") = 1 =>
          /\ StreamingFailed
          /\ l_calls[Len(l_calls)].op = "create"
          /\ l_pc \in {"done", "errored"}
    /\ (StreamingFailed /\ l_pc \in {"done", "errored"}) => LegacyCallCount("create") = 1
    /\ ~StreamingFailed => l_pc # "errored" /\ l_fallback = <<>>
    /\ l_yielded = l_streamed \o FallbackFragment
    /\ l_pc = "done" /\ StreamingFailed =>
          /\ l_calls[Len(l_calls)].ok
          /\ l_fallback # <<>>
    /\ l_pc = "errored" =>
          /\ ~l_calls[Len(l_calls)].ok
          /\ l_fallback = <<>>
          /\ l_yielded = l_streamed

\* the stream failed after one fragment and the non-streaming answer was yielded
C28_Witness ==
    /\ l_pc = "done"
    /\ Len(l_streamed) = 1
    /\ l_fallback = << <<"answer", "text">> >>
    /\ Len(l_yielded) = 2

(***************************************************************************)
(* C29: for one call of stream_chat_completion the yielded fragments make  *)
(* up the text of one provider completion: text yielded from a streamed    *)
(* answer is never followed by the text of a second, separate answer.      *)
(***************************************************************************)
C29_OneCompletion ==
    l_streamed = <<>> \/ FallbackFragment = <<>>

\* the message list has no usable user message: it is empty, or it has no
\* user-role message, or the most recent one has empty content
Unusable(msgs) ==
    LET users == {i \in 1..Len(msgs) : msgs[i].role = "user"}
    IN  \/ msgs = <<>>
        \/ users = {}
        \/ \E i \in users : (\A j \in users : j <= i) /\ msgs[i].content = <<>>

(***************************************************************************)
(* C30: the legacy completion stream rejects a request with HTTP 400,      *)
(* opening no stream and calling no provider, exactly when the message     *)
(* list is empty or the most recent user-role message is absent or empty;  *)
(* otherwise it streams, and no content event it emits has empty content.  *)
(***************************************************************************)
C30_LegacyValidation ==
    /\ l_pc # "idle" => (l_pc = "rejected" <=> Unusable(l_messages))
    /\ l_pc = "rejected" => l_calls = <<>> /\ l_events = <<>> /\ l_yielded = <<>>
    /\ l_pc \in {"done", "errored"} => l_calls # <<>>
    /\ \A i \in 1..Len(l_events) : l_events[i].content # <<>>

\* a request whose most recent user message is empty, after an earlier one that is not
C30_Witness ==
    /\ l_pc = "rejected"
    /\ Len(l_messages) = 2
    /\ l_messages[1] = Msg("user", <<"hi">>)
    /\ l_messages[2] = Msg("user", <<>>)

(***************************************************************************)
(* C31: in the chat client, if initializing a new session fails (the       *)
(* memory append raises), user_id, session_id, conversation history and    *)
(* stored memories keep the values they had before the attempt; when it    *)
(* succeeds, the history of any previous session is cleared before the new *)
(* session is usable.                                                      *)
(***************************************************************************)
C31_SessionInitAllOrNothing ==
    /\ (c_last.op = "init" /\ ~c_last.ok) => CurrentSession = c_before
    /\ (c_last.op = "init" /\ c_last.ok) =>
          /\ c_user_id # <<>>
          /\ c_session_id = <<ClientSessionId(c_user_id[1])>>
          /\ c_history = <<>>
          /\ c_memories = <<>>

\* the attempt failed while a session with a conversation was active
C31_Witness ==
    /\ c_last = [op |-> "init", ok |-> FALSE]
    /\ c_before.session_id # <<>>
    /\ Len(c_before.conversation_history) >= 2

\* user and assistant turns in turn, a user turn first
Alternates(history) ==
    \A i \in 1..Len(history) :
        history[i].role = IF i % 2 = 1 THEN "user" ELSE "assistant"

(***************************************************************************)
(* C32: in the chat client, after any sequence of user inputs (exchanges   *)
(* whose backend call fails included), the conversation history strictly   *)
(* alternates user and assistant turns starting with a user turn, and the  *)
(* history sent with a request holds every earlier turn but not the        *)
(* message being sent.                                                     *)
(***************************************************************************)
C32_HistoryAlternates ==
    /\ Alternates(c_history)
    /\ c_last.op = "chat" =>
          /\ c_sent # <<>>
          /\ c_sent[1].conversation_history = RolesAndContents(c_before.conversation_history)

\* every token of the text is a blank (the empty text included)
Blank(text) == \A i \in 1..Len(text) : text[i] = " "

\* the gTTS attempts of the last operation, in the order they were made
GttsCalls ==
    LET IsGtts(call) == call.provider = "gtts"
    IN  SelectSeq(v_calls, IsGtts)

\* "from gtts import gTTS" raised
GttsImportFailed == \E i \in 1..Len(v_calls) : v_calls[i].provider = "gtts-import"

\* the attempt produced real audio
Accepted(call) == ~call.raised /\ call.size > MinAudioBytes

\* what the gTTS attempts amount to: the audio of the last one if it was
\* accepted, else None
GttsResult ==
    IF GttsCalls # <<>> /\ Accepted(GttsCalls[Len(GttsCalls)])
    THEN <<Audio("gtts", GttsCalls[Len(GttsCalls)].config,
                 GttsCalls[Len(GttsCalls)].size)>>
    ELSE <<>>

\* the OpenAI call of the last operation was made and returned
OpenAISucceeded ==
    v_calls # <<>> /\ v_calls[1].provider = "openai" /\ ~v_calls[1].raised

(***************************************************************************)
(* C33: no voice-service operation propagates a provider exception:        *)
(* transcribe_audio returns the empty string when the client is not        *)
(* configured or the call fails; text_to_speech returns None for empty or  *)
(* blank text without contacting a provider, otherwise the OpenAI audio    *)
(* when that client is configured and succeeds, otherwise the result of    *)
(* the gTTS fallback.                                                      *)
(***************************************************************************)
C33_VoiceNeverRaises ==
    /\ v_last.op # "none" => ~v_last.raised
    /\ v_last.op = "transcribe_audio" =>
          IF groq_client
          THEN /\ Len(v_calls) = 1
               /\ v_calls[1].provider = "groq"
               /\ v_calls[1].raised => v_last.result = <<>>
          ELSE v_last.result = <<>> /\ v_calls = <<>>
    /\ v_last.op = "text_to_speech" =>
          IF Blank(v_last.input)
          THEN v_last.result = <<>> /\ v_calls = <<>>
          ELSE /\ v_calls # <<>>
               /\ openai_client <=> v_calls[1].provider = "openai"
               /\ IF OpenAISucceeded
                  THEN /\ Len(v_calls) = 1
                       /\ v_last.result = <<Audio("openai", 0, v_calls[1].size)>>
                  ELSE /\ GttsCalls # <<>> \/ GttsImportFailed
                       /\ v_last.result = GttsResult

\* OpenAI failed and the gTTS fallback supplied the audio
C33_Witness ==
    /\ v_last.op = "text_to_speech"
    /\ Len(v_calls) >= 2
    /\ v_calls[1] = VoiceCall("openai", 0, TRUE, 0)
    /\ v_last.result # <<>>
    /\ v_last.result[1].provider = "gtts"

\* the last operation got as far as the gTTS fallback
GttsReached ==
    /\ v_last.op = "text_to_speech"
    /\ ~Blank(v_last.input)
    /\ ~OpenAISucceeded

\* the configurations are tried in the order com, co.uk, slow com, none after
\* an accepted one, and the audio returned is that of the accepted one
GttsOrderAndStop ==
    /\ Len(GttsCalls) <= 3
    /\ \A i \in 1..Len(GttsCalls) :
          /\ GttsCalls[i].config = i
          /\ configs[i].tld = <<"com", "co.uk", "com">>[i]
          /\ configs[i].slow = (i = 3)
          /\ i < Len(GttsCalls) => ~Accepted(GttsCalls[i])
    /\ v_last.result # <<>> =>
          /\ GttsCalls # <<>>
          /\ Accepted(GttsCalls[Len(GttsCalls)])
          /\ v_last.result = <<Audio("gtts", Len(GttsCalls), GttsCalls[Len(GttsCalls)].size)>>

\* all three configurations were tried and none produced real audio
AllConfigsFailed ==
    /\ Len(GttsCalls) = 3
    /\ \A i \in 1..3 : ~Accepted(GttsCalls[i])

(***************************************************************************)
(* C34 as stated: the gTTS fallback tries its three configurations in      *)
(* fixed order (com, co.uk, slow com), stops at and returns the audio of   *)
(* the first that yields more than 1000 bytes, never tries a later one     *)
(* after a success, and returns None exactly when every configuration      *)
(* raised or yielded at most 1000 bytes.                                   *)
(***************************************************************************)
C34_GttsFallbackAsStated ==
    GttsReached =>
        /\ GttsOrderAndStop
        /\ v_last.result = <<>> <=> AllConfigsFailed

(***************************************************************************)
(* C34 amended: as above, but the fallback returns None exactly when the   *)
(* gTTS module could not be loaded (then no configuration is tried) or     *)
(* every configuration raised or yielded at most 1000 bytes.               *)
(***************************************************************************)
C34_GttsFallback ==
    GttsReached =>
        /\ GttsOrderAndStop
        /\ GttsImportFailed => GttsCalls = <<>>
        /\ v_last.result = <<>> <=> (GttsImportFailed \/ AllConfigsFailed)

\* None after three attempts: exactly 1000 bytes, an exception, 1000 bytes again
C34_Witness ==
    /\ GttsReached
    /\ v_last.result = <<>>
    /\ Len(GttsCalls) = 3
    /\ GttsCalls[1] = VoiceCall("gtts", 1, FALSE, MinAudioBytes)
    /\ GttsCalls[2].raised
    /\ GttsCalls[3] = VoiceCall("gtts", 3, FALSE, MinAudioBytes)

====
